---------------------------- MODULE Spec2Model ----------------------------
(***************************************************************************)
(* A model of the trading core of toryzhao/qlib_strategy:                  *)
(*   - BacktestExecutor (executors/backtest_executor.py): the sequential   *)
(*     portfolio simulator and the metrics derived from its trajectory;    *)
(*   - PerformanceAnalyzer._calculate_max_drawdown (same formula);         *)
(*   - MAStrategy.generate_signals (strategies/technical/ma_strategy.py);  *)
(*   - ParameterOptimizer.grid_search (executors/parameter_optimizer.py).  *)
(*                                                                         *)
(* Python floats are modelled as exact extended rationals <<n, d>>:        *)
(* d > 0 is the rational n/d in lowest terms, <<0,0>> is NaN, <<1,0>> is   *)
(* +inf and <<-1,0>> is -inf, with IEEE-754 rules for the special values.  *)
(* Rounding error and the sign of zero are not modelled.                   *)
(***************************************************************************)
EXTENDS Integers, Sequences, FiniteSets, TLC

VARIABLES
    \* ---- BacktestExecutor ----
    config,            \* self.config: initial_cash, position_ratio, commission_rate
    len_data,          \* len(data) of the run in progress
    data,              \* data['close'].iloc[1..i-1]: the prices read so far
    signals,           \* signals.iloc[1..i-1]: the signals read so far
    pc,                \* "idle" between calls, "loop" inside _simple_backtest
    i,                 \* loop index of _simple_backtest
    cash,
    position,
    portfolio_values,
    current_price,     \* locals of the last executed iteration
    signal,
    portfolio,         \* self.portfolio: None or the trajectory of the last run
    metrics,           \* what get_metrics returned or raised, None after another call
    \* ---- metric functions applied to a bare return sequence ----
    returns,           \* the return sequence handed over
    max_drawdown,      \* the value computed from it
    computed_by,       \* "none", or the class whose method computed it
    \* ---- ParameterOptimizer.grid_search ----
    gs                 \* record of the search in progress (see GridInit)

execVars == <<config, len_data, data, signals, pc, i, cash, position, portfolio_values,
              current_price, signal, portfolio, metrics>>
pureVars == <<returns, max_drawdown, computed_by>>
vars == <<config, len_data, data, signals, pc, i, cash, position, portfolio_values,
          current_price, signal, portfolio, metrics, pureVars, gs>>

\* Python's None, and a raised exception, as records (self.portfolio and the
\* metrics dict are records)
None == [none |-> TRUE]
Raised(e) == [raised |-> e]

-----------------------------------------------------------------------------
(* Bounds of the model *)

\* longest price series of a simulator run
MaxBars == 4
\* close prices are drawn from 1..MaxPrice
MaxPrice == 2
\* longest bare return sequence handed to the metric functions
MaxReturns == 3
\* bars of the longer price series handed to a ParameterOptimizer
GridBars == 4
\* largest n_iter of a random_search call
MaxIter == 2
\* run_backtest calls made on one executor
MaxRuns == 2

-----------------------------------------------------------------------------
(* Extended rational arithmetic standing for Python/numpy float arithmetic *)

Abs(n) == IF n < 0 THEN -n ELSE n

Sign(n) == IF n > 0 THEN 1 ELSE IF n < 0 THEN -1 ELSE 0

RECURSIVE GCD(_, _)
GCD(a, b) == IF b = 0 THEN a ELSE GCD(b, a % b)

\* n/d in lowest terms with a positive denominator; d = 0 gives NaN or +-inf
Rat(n, d) ==
    IF d = 0 THEN <<Sign(n), 0>>
    ELSE LET g == GCD(Abs(n), Abs(d))
             s == Sign(d)
         IN  <<s * (n \div g), s * (d \div g)>>

NaN == <<0, 0>>
Zero == <<0, 1>>
One == <<1, 1>>

IsNaN(x) == x = NaN
IsFinite(x) == x[2] > 0
IsInf(x) == x[2] = 0 /\ x[1] # 0

RNeg(x) == <<-x[1], x[2]>>

RAbs(x) == <<Abs(x[1]), x[2]>>

RMul(x, y) ==
    IF IsNaN(x) \/ IsNaN(y) THEN NaN
    ELSE IF IsInf(x) \/ IsInf(y) THEN <<Sign(x[1]) * Sign(y[1]), 0>>
    ELSE LET g1 == GCD(Abs(x[1]), y[2])
             g2 == GCD(Abs(y[1]), x[2])
         IN  <<(x[1] \div g1) * (y[1] \div g2), (x[2] \div g2) * (y[2] \div g1)>>

RDiv(x, y) ==
    IF IsNaN(x) \/ IsNaN(y) THEN NaN
    ELSE IF IsInf(y) THEN (IF IsInf(x) THEN NaN ELSE Zero)
    ELSE IF y[1] = 0 THEN <<Sign(x[1]), 0>>
    ELSE RMul(x, <<Sign(y[1]) * y[2], Abs(y[1])>>)

RAdd(x, y) ==
    IF IsNaN(x) \/ IsNaN(y) THEN NaN
    ELSE IF IsInf(x) /\ IsInf(y) THEN (IF x = y THEN x ELSE NaN)
    ELSE IF IsInf(x) THEN x
    ELSE IF IsInf(y) THEN y
    ELSE LET g == GCD(x[2], y[2])
         IN  Rat(x[1] * (y[2] \div g) + y[1] * (x[2] \div g), (x[2] \div g) * y[2])

RSub(x, y) == RAdd(x, RNeg(y))

\* x < y as floats compare: every comparison with NaN is false
RLess(x, y) ==
    IF IsNaN(x) \/ IsNaN(y) THEN FALSE
    ELSE IF IsInf(x) \/ IsInf(y)
         THEN (IF IsInf(x) /\ IsInf(y) THEN x[1] < y[1]
               ELSE IF IsInf(x) THEN x[1] < 0 ELSE y[1] > 0)
    ELSE x[1] * y[2] < y[1] * x[2]

RLeq(x, y) == ~IsNaN(x) /\ ~IsNaN(y) /\ ~RLess(y, x)

FromInt(n) == <<n, 1>>


-----------------------------------------------------------------------------
(* Program constants *)

\* trading periods per year (annual_return, volatility, Sharpe ratio)
TradingDays == 252
\* config.get('initial_cash', 1000000)
DefaultInitialCash == 1000000

DefaultPositionRatio == Rat(3, 10)
DefaultCommissionRate == Rat(1, 10000)
\* risk_free_rate = 0.03, used as risk_free_rate / 252
RiskFreeRate == Rat(3, 100)

\* dict.get(key, default)
Get(d, key, default) == IF key \in DOMAIN d THEN d[key] ELSE default

-----------------------------------------------------------------------------
(* BacktestExecutor._simple_backtest: one iteration of the loop *)

LongEntryMutant(c, p, price, position_ratio, commission_rate) ==
    LET position_value == RMul(c, position_ratio)
    IN  [cash |-> RSub(c, RMul(position_value, RAdd(One, commission_rate))),
         position |-> RDiv(position_value, price)]

\* signal == 1 and position == 0: open a long position
LongEntry(c, p, price, position_ratio, commission_rate) ==
    LET position_value == RMul(c, position_ratio)
    IN  [cash |-> RSub(c, position_value),
         position |-> RDiv(position_value, price)]

\* signal == -1 and position == 0: open a short position
ShortEntry(c, p, price, position_ratio, commission_rate) ==
    LET position_value == RMul(c, position_ratio)
        newpos == RDiv(RNeg(position_value), price)
    IN  [cash |-> RSub(c, RMul(RMul(RAbs(newpos), price), commission_rate)),
         position |-> newpos]

\* signal == 0 and position != 0: close the position
ClosePosition(c, p, price, position_ratio, commission_rate) ==
    [cash |-> RAdd(c, RMul(p, price)), position |-> Zero]

FirstBarMutant == 1 - 1

\* range(1, len(data)): the loop starts at bar 1
FirstBar == 1

\* a long entry on every signal that is not Short
TradeLongUnlessShort(c, p, price, sig, position_ratio, commission_rate) ==
    IF sig >= 0 /\ p = Zero
        THEN LongEntry(c, p, price, position_ratio, commission_rate)
    ELSE IF sig = -1 /\ p = Zero
        THEN ShortEntry(c, p, price, position_ratio, commission_rate)
    ELSE IF sig = 0 /\ p # Zero
        THEN ClosePosition(c, p, price, position_ratio, commission_rate)
    ELSE [cash |-> c, position |-> p]

\* an opposite signal closes the open position and opens the other side at once
TradeReversing(c, p, price, sig, position_ratio, commission_rate) ==
    LET closed == ClosePosition(c, p, price, position_ratio, commission_rate)
    IN  IF sig = 1 /\ (p = Zero \/ RLess(p, Zero))
            THEN LongEntry(closed.cash, Zero, price, position_ratio, commission_rate)
        ELSE IF sig = -1 /\ (p = Zero \/ RLess(Zero, p))
            THEN ShortEntry(closed.cash, Zero, price, position_ratio, commission_rate)
        ELSE IF sig = 0 /\ p # Zero
            THEN closed
        ELSE [cash |-> c, position |-> p]

\* the if / elif / elif chain of one iteration
Trade(c, p, price, sig, position_ratio, commission_rate) ==
    IF sig = 1 /\ p = Zero
        THEN LongEntry(c, p, price, position_ratio, commission_rate)
    ELSE IF sig = -1 /\ p = Zero
        THEN ShortEntry(c, p, price, position_ratio, commission_rate)
    ELSE IF sig = 0 /\ p # Zero
        THEN ClosePosition(c, p, price, position_ratio, commission_rate)
    ELSE [cash |-> c, position |-> p]

\* portfolio_value = cash + position * current_price
PortfolioValue(c, p, price) == RAdd(c, RMul(p, price))

\* the change divided by the current value instead of the previous one
PctChangeOverCurrent(values) ==
    [k \in 1..Len(values) |->
        IF k = 1 THEN NaN ELSE RDiv(RSub(values[k], values[k - 1]), values[k])]

\* Series.pct_change(): NaN first, then value[k] / value[k-1] - 1
PctChange(values) ==
    [k \in 1..Len(values) |->
        IF k = 1 THEN NaN ELSE RSub(RDiv(values[k], values[k - 1]), One)]

\* DataFrame({'portfolio_value': ...}) with its 'returns' column
DataFrame(values) == [portfolio_value |-> values, returns |-> PctChange(values)]

-----------------------------------------------------------------------------
(* BacktestExecutor.get_metrics and its helpers, on a return sequence *)

\* Series.dropna(): the entries that are not NaN, in order
DropNa(rs) == SelectSeq(rs, LAMBDA x : ~IsNaN(x))

\* (1 + returns)
OnePlus(rs) == [k \in 1..Len(rs) |-> RAdd(One, rs[k])]

RECURSIVE Prod(_, _)
\* product of the first k entries (1 for none)
Prod(xs, k) == IF k = 0 THEN One ELSE RMul(Prod(xs, k - 1), xs[k])

RECURSIVE Sum(_, _)
Sum(xs, k) == IF k = 0 THEN Zero ELSE RAdd(Sum(xs, k - 1), xs[k])

\* Series.mean(): NaN for an empty series (0 / 0)
Mean(xs) == RDiv(Sum(xs, Len(xs)), FromInt(Len(xs)))

\* Series.std() (ddof = 1), a square root, kept symbolically: NaN for fewer than
\* two entries, zero exactly when all entries are equal, else the positive
\* standard deviation of the entries "of"
Std(xs) ==
    [nan  |-> Len(xs) < 2,
     zero |-> Len(xs) >= 2 /\ \A k \in 1..Len(xs) : xs[k] = xs[1],
     of   |-> xs]

\* (1 + returns).cumprod()
CumProd(rs) == [k \in 1..Len(rs) |-> Prod(OnePlus(rs), k)]

\* the larger of two floats, a NaN giving way to the other
RMax(x, y) == IF IsNaN(x) THEN y ELSE IF IsNaN(y) THEN x ELSE IF RLess(x, y) THEN y ELSE x

RMin(x, y) == IF IsNaN(x) THEN y ELSE IF IsNaN(y) THEN x ELSE IF RLess(y, x) THEN y ELSE x

RECURSIVE MaxUpTo(_, _)
MaxUpTo(xs, k) == IF k = 0 THEN NaN ELSE RMax(MaxUpTo(xs, k - 1), xs[k])

RECURSIVE MinUpTo(_, _)
MinUpTo(xs, k) == IF k = 0 THEN NaN ELSE RMin(MinUpTo(xs, k - 1), xs[k])

\* cumulative.expanding().max()
ExpandingMax(xs) == [k \in 1..Len(xs) |-> MaxUpTo(xs, k)]

\* (cumulative - running_max) / running_max
Drawdown(rs) ==
    LET cumulative == CumProd(rs)
        running_max == ExpandingMax(cumulative)
    IN  [k \in 1..Len(rs) |-> RDiv(RSub(cumulative[k], running_max[k]), running_max[k])]

\* the last drawdown instead of the deepest one
MaxDrawdownLast(rs) == IF Len(rs) = 0 THEN NaN ELSE Drawdown(rs)[Len(rs)]

\* BacktestExecutor._calculate_max_drawdown: drawdown.min(), NaN when no entry
\* is a number
calculate_max_drawdown(rs) == MinUpTo(Drawdown(rs), Len(rs))

\* PerformanceAnalyzer._calculate_max_drawdown: the same four lines
analyzer_calculate_max_drawdown(rs) ==
    LET cumulative == CumProd(rs)
        running_max == ExpandingMax(cumulative)
        drawdown == [k \in 1..Len(rs) |->
                        RDiv(RSub(cumulative[k], running_max[k]), running_max[k])]
    IN  MinUpTo(drawdown, Len(rs))

\* _calculate_sharpe: excess.mean() / excess.std() * sqrt(252), kept as its
\* operands (the mean and the standard deviation of the excess returns)
calculate_sharpe(rs) ==
    LET rf == RDiv(RiskFreeRate, FromInt(TradingDays))
        excess_returns == [k \in 1..Len(rs) |-> RSub(rs[k], rf)]
    IN  [mean |-> Mean(excess_returns), std |-> Std(excess_returns)]

\* (1 + returns).prod() - 1
TotalReturn(rs) == RSub(Prod(OnePlus(rs), Len(rs)), One)

\* the metrics dict built by get_metrics from self.portfolio
Metrics(pf) ==
    LET rs == DropNa(pf.returns)
    IN  [total_return  |-> TotalReturn(rs),
         annual_return |-> RMul(Mean(rs), FromInt(TradingDays)),
         sharpe_ratio  |-> calculate_sharpe(rs),
         max_drawdown  |-> calculate_max_drawdown(rs),
         volatility    |-> [std |-> Std(rs), times_sqrt |-> TradingDays]]

-----------------------------------------------------------------------------
(* Inputs of the simulator *)

Signals == {-1, 0, 1}
Prices == 1..MaxPrice

\* sequences over S of length n
SeqsOfLen(S, n) == [1..n -> S]

PositionRatios == {Rat(1, 2), One}
CommissionRates == {Zero, Rat(1, 10)}

Configs == [initial_cash : {FromInt(100)},
            position_ratio : PositionRatios,
            commission_rate : CommissionRates]

initial_cash == Get(config, "initial_cash", FromInt(DefaultInitialCash))
position_ratio == Get(config, "position_ratio", DefaultPositionRatio)
commission_rate == Get(config, "commission_rate", DefaultCommissionRate)

\* what the other components hold while the executor is the one running
gsIdle == [phase |-> "off"]
pureIdle == /\ returns = <<>>
            /\ max_drawdown = NaN
            /\ computed_by = "none"

-----------------------------------------------------------------------------
(* BacktestExecutor: __init__, run_backtest / _simple_backtest, get_metrics *)

\* __init__: self.portfolio = None
ExecInit ==
    /\ config \in Configs
    /\ len_data = 0
    /\ data = <<>>
    /\ signals = <<>>
    /\ pc = "idle"
    /\ i = 0
    /\ cash = Zero
    /\ position = Zero
    /\ portfolio_values = <<>>
    /\ current_price = Zero
    /\ signal = 0
    /\ portfolio = None
    /\ metrics = None

\* run_backtest up to the loop of _simple_backtest: the strategy has produced
\* its signals (one per bar), cash = initial_cash, position = 0,
\* portfolio_values = []. Bar 0 is never read; the later bars are drawn as
\* the loop reads them.
RunBacktest ==
    /\ pc = "idle"
    /\ portfolio = None
    /\ len_data' \in 1..MaxBars
    /\ data' = <<>>
    /\ signals' = <<>>
    /\ cash' = initial_cash
    /\ position' = Zero
    /\ portfolio_values' = <<>>
    /\ i' = FirstBar
    /\ pc' = "loop"
    /\ metrics' = None
    /\ UNCHANGED <<config, current_price, signal, portfolio, pureVars, gs>>

\* one iteration of "for i in range(1, len(data))" on the bar (price, sig)
Iterate(price, sig) ==
    LET t == Trade(cash, position, FromInt(price), sig, position_ratio, commission_rate)
    IN  /\ current_price' = FromInt(price)
        /\ signal' = sig
        /\ cash' = t.cash
        /\ position' = t.position
        /\ portfolio_values' =
               Append(portfolio_values, PortfolioValue(t.cash, t.position, FromInt(price)))
        /\ data' = Append(data, price)
        /\ signals' = Append(signals, sig)
        /\ i' = i + 1

LoopStep ==
    /\ pc = "loop"
    /\ i < len_data
    /\ \E price \in Prices : \E sig \in Signals : Iterate(price, sig)
    /\ UNCHANGED <<config, len_data, pc, portfolio, metrics, pureVars, gs>>

\* the loop is exhausted: the DataFrame is built, stored in self.portfolio, returned
LoopEnd ==
    /\ pc = "loop"
    /\ i >= len_data
    /\ portfolio' = DataFrame(portfolio_values)
    /\ pc' = "idle"
    /\ UNCHANGED <<config, len_data, data, signals, i, cash, position, portfolio_values,
                   current_price, signal, metrics, pureVars, gs>>

\* get_metrics: raises ValueError before the first run
GetMetrics ==
    /\ pc = "idle"
    /\ metrics = None
    /\ metrics' = IF portfolio = None THEN Raised("ValueError") ELSE Metrics(portfolio)
    /\ UNCHANGED <<config, len_data, data, signals, pc, i, cash, position, portfolio_values,
                   current_price, signal, portfolio, pureVars, gs>>

Init ==
    /\ ExecInit
    /\ pureIdle
    /\ gs = gsIdle

Next ==
    \/ RunBacktest
    \/ LoopStep
    \/ LoopEnd
    \/ GetMetrics

Spec == Init /\ [][Next]_vars

-----------------------------------------------------------------------------
(* Claims about the simulator (specification Spec) *)

IsMetrics(m) == "total_return" \in DOMAIN m
HasRun == pc = "idle" /\ portfolio # None
AllFlat(sigs) == \A k \in 1..Len(sigs) : sigs[k] = 0
Last(xs) == xs[Len(xs)]

\* C1: a run over N >= 1 bars returns a trajectory of exactly N-1 rows, one per
\* bar 1..N-1 in order: inside the loop row k was appended at bar k, and the
\* returned frame holds those rows with one return per row
C1_TrajectoryLength ==
    /\ pc = "loop" =>
          /\ Len(portfolio_values) = i - 1
          /\ Len(data) = i - 1
          /\ i <= len_data
    /\ HasRun =>
          /\ len_data >= 1
          /\ Len(portfolio.portfolio_value) = len_data - 1
          /\ Len(portfolio.returns) = len_data - 1
          /\ Len(data) = len_data - 1
          /\ portfolio.portfolio_value = portfolio_values

C1_Witness == HasRun /\ len_data = MaxBars /\ Len(portfolio.portfolio_value) = MaxBars - 1

\* C2: if every signal is Flat, every portfolio_value equals initial_cash,
\* whatever the (positive) prices, position_ratio and commission_rate
C2_AllFlatKeepsInitialCash ==
    ((pc = "loop" \/ HasRun) /\ AllFlat(signals)) =>
        /\ cash = initial_cash
        /\ position = Zero
        /\ \A k \in 1..Len(portfolio_values) : portfolio_values[k] = initial_cash
        /\ HasRun => \A k \in 1..Len(portfolio.portfolio_value) :
                         portfolio.portfolio_value[k] = initial_cash

C2_Witness ==
    /\ HasRun
    /\ Len(signals) = MaxBars - 1
    /\ AllFlat(signals)
    /\ \E k \in 1..Len(data) : data[k] # data[1]
    /\ commission_rate # Zero

\* C3 as stated: total_return of a completed run equals
\* last portfolio_value / initial_cash - 1
C3_Original ==
    (IsMetrics(metrics) /\ Len(portfolio.portfolio_value) >= 1) =>
        metrics.total_return =
            RSub(RDiv(Last(portfolio.portfolio_value), initial_cash), One)

AllNonZero(xs) == \A k \in 1..Len(xs) : xs[k] # Zero

\* C3 amended: over a trajectory whose portfolio values are all non-zero,
\* total_return equals last portfolio_value / FIRST ROW's portfolio_value - 1
\* (the first row's return is NaN and dropped); that is
\* last portfolio_value / initial_cash - 1 when the signal at bar 1 is not Short
C3_TotalReturnFromFirstRow ==
    (/\ IsMetrics(metrics)
     /\ Len(portfolio.portfolio_value) >= 1
     /\ AllNonZero(portfolio.portfolio_value)) =>
        /\ metrics.total_return =
               RSub(RDiv(Last(portfolio.portfolio_value), portfolio.portfolio_value[1]), One)
        /\ signals[1] # -1 =>
               metrics.total_return =
                   RSub(RDiv(Last(portfolio.portfolio_value), initial_cash), One)

C3_Witness ==
    /\ IsMetrics(metrics)
    /\ Len(portfolio.portfolio_value) = MaxBars - 1
    /\ AllNonZero(portfolio.portfolio_value)
    /\ signals[1] = -1
    /\ metrics.total_return # Zero
    /\ metrics.total_return #
           RSub(RDiv(Last(portfolio.portfolio_value), initial_cash), One)

\* a step of the simulator loop: the iteration that read bar i
IsIteration == pc = "loop" /\ pc' = "loop" /\ i' = i + 1

\* C4 as stated: a Short entry lowers cash by cash * position_ratio * commission_rate
C4_Original ==
    [][(IsIteration /\ position = Zero /\ signal' = -1) =>
          /\ position' = RDiv(RNeg(RMul(cash, position_ratio)), current_price')
          /\ cash' = RSub(cash, RMul(RMul(cash, position_ratio), commission_rate))]_vars

\* C4 amended: every step applies the documented transition; the commission of a
\* Short entry is abs(position) * price * commission_rate, which is
\* abs(cash * position_ratio) * commission_rate: cash is lowered by it also
\* when cash is negative
C4_StepTransitions ==
    [][IsIteration =>
          /\ (position = Zero /\ signal' = 1) =>
                /\ position' = RDiv(RMul(cash, position_ratio), current_price')
                /\ cash' = RSub(cash, RMul(cash, position_ratio))
          /\ (position = Zero /\ signal' = -1) =>
                /\ position' = RDiv(RNeg(RMul(cash, position_ratio)), current_price')
                /\ cash' = RSub(cash, RMul(RAbs(RMul(cash, position_ratio)), commission_rate))
          /\ (position # Zero /\ signal' = 0) =>
                /\ cash' = RAdd(cash, RMul(position, current_price'))
                /\ position' = Zero]_vars

\* a long entry, a close and a short entry have all been executed, with a commission
C4_Witness ==
    /\ HasRun
    /\ signals = <<1, 0, -1>>
    /\ position # Zero
    /\ commission_rate # Zero
    /\ data[1] # data[2]

\* C5: while a position is open a Long or Short signal changes neither cash nor
\* position; position only moves from 0 to non-zero on a Long or Short signal and
\* from non-zero to 0 on a Flat signal (never resized, never flipped directly)
C5_OpenPositionFrozen ==
    [][IsIteration =>
          /\ (position # Zero /\ signal' # 0) => (cash' = cash /\ position' = position)
          /\ position' # position =>
                \/ (position = Zero /\ signal' # 0 /\ position' # Zero)
                \/ (position # Zero /\ signal' = 0 /\ position' = Zero)]_vars

\* an open short position has met a Long signal (and an open long a Short one)
C5_Witness ==
    /\ pc = "loop"
    /\ Len(signals) >= 2
    /\ signals[Len(signals) - 1] = -1
    /\ signal = 1
    /\ RLess(position, Zero)

-----------------------------------------------------------------------------
(* The drawdown functions applied to a bare return sequence *)

ReturnValues == {FromInt(-2), FromInt(-1), Rat(-1, 2), Zero, Rat(1, 2), One}

ReturnSeqs == UNION {SeqsOfLen(ReturnValues, n) : n \in 1..MaxReturns}

execIdle ==
    /\ config = [initial_cash |-> FromInt(100)]
    /\ len_data = 0
    /\ data = <<>>
    /\ signals = <<>>
    /\ pc = "idle"
    /\ i = 0
    /\ cash = Zero
    /\ position = Zero
    /\ portfolio_values = <<>>
    /\ current_price = Zero
    /\ signal = 0
    /\ portfolio = None
    /\ metrics = None

MetricsInit ==
    /\ returns \in ReturnSeqs
    /\ max_drawdown = NaN
    /\ computed_by = "none"
    /\ execIdle
    /\ gs = gsIdle

ExecutorMaxDrawdown ==
    /\ computed_by = "none"
    /\ max_drawdown' = calculate_max_drawdown(returns)
    /\ computed_by' = "BacktestExecutor"
    /\ UNCHANGED <<returns, execVars, gs>>

AnalyzerMaxDrawdown ==
    /\ computed_by = "none"
    /\ max_drawdown' = analyzer_calculate_max_drawdown(returns)
    /\ computed_by' = "PerformanceAnalyzer"
    /\ UNCHANGED <<returns, execVars, gs>>

MetricsNext ==
    \/ ExecutorMaxDrawdown
    \/ AnalyzerMaxDrawdown

SpecMetrics == MetricsInit /\ [][MetricsNext]_vars

\* the wealth index W[k] = product over j <= k of (1 + r[j]) never falls
NonDecreasing(xs) == \A k \in 2..Len(xs) : RLeq(xs[k - 1], xs[k])

\* C6 as stated: for every non-empty return sequence max_drawdown <= 0, and it
\* is 0 exactly when the wealth index is non-decreasing
C6_Original ==
    computed_by # "none" =>
        /\ RLeq(max_drawdown, Zero)
        /\ max_drawdown = Zero <=> NonDecreasing(CumProd(returns))

\* C6 amended: for every non-empty return sequence whose first return is greater
\* than -1 (the wealth index starts positive), max_drawdown <= 0, and it is 0
\* exactly when the wealth index is non-decreasing
C6_DrawdownSign ==
    (computed_by # "none" /\ RLess(FromInt(-1), returns[1])) =>
        /\ RLeq(max_drawdown, Zero)
        /\ max_drawdown = Zero <=> NonDecreasing(CumProd(returns))

\* a sequence with a real drawdown, a later return below -1 included
C6_Witness ==
    /\ computed_by = "PerformanceAnalyzer"
    /\ Len(returns) = MaxReturns
    /\ RLess(FromInt(-1), returns[1])
    /\ \E k \in 2..Len(returns) : RLess(returns[k], FromInt(-1))
    /\ RLess(max_drawdown, FromInt(-1))

-----------------------------------------------------------------------------
(* MAStrategy and the whole run of a fresh BacktestExecutor, as functions *)

\* MAStrategy defaults: config.get('fast_period', 5), config.get('slow_period', 20)
DefaultFastPeriod == 5
DefaultSlowPeriod == 20

RECURSIVE SumInts(_, _, _)
\* close[from] + ... + close[to]
SumInts(close, from, to) ==
    IF from > to THEN 0 ELSE close[to] + SumInts(close, from, to - 1)

\* data['close'].rolling(w).mean() at the 1-based bar t: NaN until w bars exist
RollingMean(close, w, t) ==
    IF w = 0 \/ t < w THEN NaN ELSE Rat(SumInts(close, t - w + 1, t), w)

\* MAStrategy.generate_signals: 1 where fast_ma > slow_ma, -1 where fast_ma <
\* slow_ma, 0 elsewhere (a comparison with NaN is false)
generate_signals(close, fast_period, slow_period) ==
    [t \in 1..Len(close) |->
        LET fast_ma == RollingMean(close, fast_period, t)
            slow_ma == RollingMean(close, slow_period, t)
        IN  IF RLess(fast_ma, slow_ma) THEN -1   \* line 45 is the later assignment
            ELSE IF RLess(slow_ma, fast_ma) THEN 1
            ELSE 0]

RECURSIVE RunLoop(_, _, _, _)
\* cash, position and portfolio_values after the iterations i = 1..n of
\* _simple_backtest
RunLoop(close, sigs, cfg, n) ==
    IF n < FirstBar
    THEN [cash |-> Get(cfg, "initial_cash", FromInt(DefaultInitialCash)),
          position |-> Zero,
          values |-> <<>>]
    ELSE LET prev == RunLoop(close, sigs, cfg, n - 1)
             price == FromInt(close[n + 1])
             t == Trade(prev.cash, prev.position, price, sigs[n + 1],
                        Get(cfg, "position_ratio", DefaultPositionRatio),
                        Get(cfg, "commission_rate", DefaultCommissionRate))
         IN  [cash |-> t.cash,
              position |-> t.position,
              values |-> Append(prev.values, PortfolioValue(t.cash, t.position, price))]

\* _simple_backtest(data, signals) of an executor built with cfg
simple_backtest(close, sigs, cfg) ==
    DataFrame(RunLoop(close, sigs, cfg, Len(close) - 1).values)

-----------------------------------------------------------------------------
(* ParameterOptimizer *)

\* sklearn's ParameterGrid sorts the grid's items by parameter name
NameRank == [commission_rate |-> 1, fast_period |-> 2, position_ratio |-> 3,
             slow_period |-> 4]

Range(f) == {f[x] : x \in DOMAIN f}

\* sorted(param_grid.items()): item j is the one with j-1 smaller names
SortedItems(param_grid) ==
    [j \in 1..Len(param_grid) |->
        CHOOSE it \in Range(param_grid) :
            Cardinality({x \in Range(param_grid) : NameRank[x[1]] < NameRank[it[1]]}) = j - 1]

RECURSIVE Product(_, _)
\* itertools.product over the value lists of the first j items, as dicts:
\* the last parameter varies fastest
Product(items, j) ==
    IF j = 0 THEN << <<>> >>
    ELSE LET rest == Product(items, j - 1)
             name == items[j][1]
             vals == items[j][2]
         IN  [m \in 1..(Len(rest) * Len(vals)) |->
                 (name :> vals[((m - 1) % Len(vals)) + 1])
                     @@ rest[((m - 1) \div Len(vals)) + 1]]

\* value lists paired position by position instead of multiplied out
ParameterGridZipped(param_grid) ==
    IF Len(param_grid) = 0 THEN << <<>> >>
    ELSE LET items == SortedItems(param_grid)
             n == Len(items[1][2])
         IN  [m \in 1..n |->
                 [name \in {items[j][1] : j \in 1..Len(items)} |->
                     LET it == CHOOSE x \in Range(items) : x[1] = name
                     IN  it[2][IF m <= Len(it[2]) THEN m ELSE Len(it[2])]]]

\* the product taken over the items as declared, without sorting them
ParameterGridDeclared(param_grid) == Product(param_grid, Len(param_grid))

\* list(ParameterGrid(param_grid))
ParameterGrid(param_grid) ==
    LET items == SortedItems(param_grid)
    IN  Product(items, Len(items))

\* the base configuration's entries win over the combination's
MergeConfigBaseWins(base_config, params) == base_config @@ params

\* config = self.base_config.copy(); config.update(params)
MergeConfig(base_config, params) == params @@ base_config

\* self.base_config after the two lines: update() changed the copy only
BaseConfigAfterMerge(base_config, params) == base_config

\* the exception a trial raises inside the try block before its metrics exist:
\* config['instrument'] etc. in the strategy's construction, rolling() with a
\* negative window in generate_signals
TrialError(cfg) ==
    IF ~({"instrument", "start_date", "end_date"} \subseteq DOMAIN cfg) THEN "KeyError"
    ELSE IF \/ Get(cfg, "fast_period", DefaultFastPeriod) < 0
            \/ Get(cfg, "slow_period", DefaultSlowPeriod) < 0 THEN "ValueError"
    ELSE "none"

\* strategy = strategy_class(...); executor = BacktestExecutor(strategy, config);
\* executor.run_backtest(self.data); metrics = executor.get_metrics()
TrialMetrics(cfg, close) ==
    Metrics(simple_backtest(close,
                            generate_signals(close,
                                             Get(cfg, "fast_period", DefaultFastPeriod),
                                             Get(cfg, "slow_period", DefaultSlowPeriod)),
                            cfg))

MetricNames == {"total_return", "annual_return", "sharpe_ratio", "max_drawdown", "volatility"}

\* metrics['params'] = params: the row appended to results
Row(m, params) == ("params" :> params) @@ m

\* the verbose print of a finished trial raises KeyError when params has no
\* 'fast_period' / 'slow_period' or metrics has no entry named by metric
PrintRaises(params, metric) ==
    ~(/\ "fast_period" \in DOMAIN params
      /\ "slow_period" \in DOMAIN params
      /\ metric \in MetricNames)

RECURSIVE ArgMaxScan(_, _)
\* Series.idxmax() over the first k entries: the first position holding the
\* largest number, NaN skipped; 0 when there is no number
ArgMaxScan(col, k) ==
    IF k = 0 THEN 0
    ELSE LET prev == ArgMaxScan(col, k - 1)
         IN  IF IsNaN(col[k]) THEN prev
             ELSE IF prev = 0 THEN k
             ELSE IF RLess(col[prev], col[k]) THEN k
             ELSE prev

RECURSIVE ArgMinScan(_, _)
\* Series.idxmin(), likewise
ArgMinScan(col, k) ==
    IF k = 0 THEN 0
    ELSE LET prev == ArgMinScan(col, k - 1)
         IN  IF IsNaN(col[k]) THEN prev
             ELSE IF prev = 0 THEN k
             ELSE IF RLess(col[k], col[prev]) THEN k
             ELSE prev

\* results_df[metric]
Column(results, metric) == [k \in 1..Len(results) |-> results[k][metric]]

\* the objective is always maximised
BestIndexAlwaysMax(results, metric) ==
    ArgMaxScan(Column(results, metric), Len(results))

\* best_idx (1-based; 0 when the column holds no number): idxmin for
\* max_drawdown, idxmax for every other metric
BestIndex(results, metric) ==
    IF metric = "max_drawdown"
    THEN ArgMinScan(Column(results, metric), Len(results))
    ELSE ArgMaxScan(Column(results, metric), Len(results))

-----------------------------------------------------------------------------
(* Inputs of the optimizer *)

GridPrices == {1, 2}

\* self.data: a two-bar series (one trajectory row, no return) or GridBars bars
OptData == SeqsOfLen(GridPrices, 2) \cup SeqsOfLen(GridPrices, GridBars)

FullBaseConfig ==
    [instrument |-> "TA", start_date |-> "2020-01-01", end_date |-> "2020-12-31",
     initial_cash |-> FromInt(100), position_ratio |-> Rat(1, 2),
     commission_rate |-> Rat(1, 10), fast_period |-> 2]

\* the same without 'instrument': the construction of every strategy fails
BaseConfigs ==
    {FullBaseConfig,
     [k \in DOMAIN FullBaseConfig \ {"instrument"} |-> FullBaseConfig[k]]}

\* candidate periods; a negative window makes rolling() raise
PeriodValues == {-1, 1, 2}

\* lists of one or two distinct candidate values, in every order
PeriodLists ==
    {<<v>> : v \in PeriodValues}
        \cup {pr \in PeriodValues \X PeriodValues : pr[1] # pr[2]}

\* grids over both periods (declared slow_period first for the two-value
\* lists of valid periods) and over slow_period alone
ParamGrids ==
    {<< <<"fast_period", f>>, <<"slow_period", sl>> >> : f \in PeriodLists, sl \in PeriodLists}
        \cup {<< <<"slow_period", sl>>, <<"fast_period", f>> >> :
                 f \in {<<1, 2>>, <<2, 1>>}, sl \in {<<1, 2>>, <<2, 1>>}}
        \cup {<< <<"slow_period", sl>> >> : sl \in PeriodLists}

\* 'win_rate' is a name get_metrics does not produce
Objectives == {"total_return", "max_drawdown", "win_rate"}

\* name -> (low, high)
ParamDistributions ==
    {<< <<"fast_period", 1, 2>>, <<"slow_period", 1, 2>> >>,
     << <<"fast_period", -1, 1>>, <<"slow_period", 2, 2>> >>,
     << <<"fast_period", -1, -1>> >>}

\* what the optimizer holds before a search is called
OptIdle(d, b) ==
    [phase |-> "idle", method |-> "none", data |-> d, base_config |-> b,
     param_grid |-> <<>>, param_distributions |-> <<>>, n_iter |-> 0,
     metric |-> "none", verbose |-> FALSE,
     params_list |-> <<>>, k |-> 0, trials |-> <<>>,
     results |-> <<>>, best_result |-> None, results_df |-> <<>>, error |-> "none",
     executor |-> None]

\* ParameterOptimizer(strategy_class = MAStrategy, data, base_config)
OptInit ==
    /\ \E d \in OptData : \E b \in BaseConfigs :
          \* without 'instrument' every construction fails before the data
          \* is read: the two-bar series stand for all series there
          /\ "instrument" \notin DOMAIN b => Len(d) = 2
          /\ gs = OptIdle(d, b)
    /\ execIdle
    /\ pureIdle

-----------------------------------------------------------------------------
(* ParameterOptimizer.grid_search and random_search, one loop iteration per step *)

\* a search's local variables at the top of its loop
Started(g, method, metric, verbose, params_list) ==
    [g EXCEPT !.phase = "loop", !.method = method, !.metric = metric,
              !.verbose = verbose, !.params_list = params_list, !.k = 1,
              !.trials = <<>>, !.results = <<>>, !.best_result = None,
              !.results_df = <<>>, !.error = "none", !.executor = None,
              !.param_grid = <<>>, !.param_distributions = <<>>, !.n_iter = 0]

\* the except clause stops the search instead of going on with the next trial
OnExceptionAbort(g) == [g EXCEPT !.phase = "raised", !.error = "Exception"]

\* except Exception: (print the failure;) continue
OnException(g) == [g EXCEPT !.k = g.k + 1]

\* the executor of the first trial serves every later trial
KeepExecutor(executor, cfg) ==
    IF executor = None THEN [config |-> cfg] ELSE executor

\* executor = BacktestExecutor(strategy, config): a new object for every
\* trial, holding the trial's strategy (built from config) and config
NewExecutor(executor, cfg) == [config |-> cfg]

\* one iteration of the loop for the combination params: the merge, the try
\* block (construction, run_backtest, get_metrics, append, and in grid_search
\* the verbose print) and the except clause
Trial(g, params, prints) ==
    LET cfg == MergeConfig(g.base_config, params)
        err == TrialError(cfg)
        appended == err = "none"
        \* a KeyError is raised in the strategy's construction, before line 57
        executor == IF err = "KeyError" THEN g.executor ELSE NewExecutor(g.executor, cfg)
        results == IF appended
                   THEN Append(g.results, Row(TrialMetrics(executor.config, g.data), params))
                   ELSE g.results
        printErr == appended /\ prints /\ PrintRaises(params, g.metric)
        caught == IF ~appended THEN err ELSE IF printErr THEN "KeyError" ELSE "none"
        report == IF ~prints THEN "silent" ELSE IF caught = "none" THEN "ok" ELSE "failed"
        done == [g EXCEPT !.base_config = BaseConfigAfterMerge(g.base_config, params),
                          !.executor = executor,
                          !.results = results,
                          !.trials = Append(g.trials,
                                            [params |-> params, config |-> cfg,
                                             appended |-> appended, caught |-> caught,
                                             report |-> report])]
    IN  IF caught = "none" THEN [done EXCEPT !.k = g.k + 1] ELSE OnException(done)

\* after the loop: results_df, best_idx, best_result. empty_check is
\* grid_search's "if len(results_df) == 0: raise ValueError"; e is the error
\* the installed pandas raises for a column without a number (idxmax/idxmin
\* itself, or iloc on the NaN label it returns)
Finish(g, empty_check, e) ==
    LET df == [g EXCEPT !.results_df = g.results]
        best_idx == BestIndex(g.results, g.metric)
    IN  IF empty_check /\ Len(g.results) = 0
        THEN [df EXCEPT !.phase = "raised", !.error = "ValueError"]
        ELSE IF Len(g.results) = 0 \/ g.metric \notin MetricNames
        THEN [df EXCEPT !.phase = "raised", !.error = "KeyError"]
        ELSE IF best_idx = 0
        THEN [df EXCEPT !.phase = "raised", !.error = e]
        ELSE [df EXCEPT !.phase = "returned", !.best_result = g.results[best_idx]]

\* one search call per optimizer: a search keeps nothing on the object, so a
\* second call starts from the same state as the first
Callable == gs.phase = "idle"

\* grid_search(param_grid, metric, verbose) up to the loop
GridSearchCall ==
    /\ Callable
    /\ \E param_grid \in ParamGrids, metric \in Objectives, verbose \in BOOLEAN :
          gs' = [Started(gs, "grid", metric, verbose, ParameterGrid(param_grid))
                    EXCEPT !.param_grid = param_grid]
    /\ UNCHANGED <<execVars, pureVars>>

GridTrial ==
    /\ gs.phase = "loop" /\ gs.method = "grid"
    /\ gs.k <= Len(gs.params_list)
    /\ gs' = Trial(gs, gs.params_list[gs.k], gs.verbose)
    /\ UNCHANGED <<execVars, pureVars>>

GridFinish ==
    /\ gs.phase = "loop" /\ gs.method = "grid"
    /\ gs.k > Len(gs.params_list)
    /\ \E e \in {"TypeError", "ValueError"} : gs' = Finish(gs, TRUE, e)
    /\ UNCHANGED <<execVars, pureVars>>

\* random_search(param_distributions, n_iter, metric, random_state) up to the loop
RandomSearchCall ==
    /\ Callable
    /\ \E param_distributions \in ParamDistributions, n_iter \in 1..MaxIter,
          metric \in Objectives :
          gs' = [Started(gs, "random", metric, FALSE, <<>>)
                    EXCEPT !.param_distributions = param_distributions,
                           !.n_iter = n_iter]
    /\ UNCHANGED <<execVars, pureVars>>

\* the dicts np.random.randint(low, high + 1) can fill for the distributions
Draws(param_distributions) ==
    {params \in [{d[1] : d \in Range(param_distributions)} -> -1..2] :
        \A d \in Range(param_distributions) :
            d[2] <= params[d[1]] /\ params[d[1]] <= d[3]}

RandomTrial ==
    /\ gs.phase = "loop" /\ gs.method = "random"
    /\ gs.k <= gs.n_iter
    /\ \E params \in Draws(gs.param_distributions) :
          gs' = [Trial(gs, params, FALSE)
                    EXCEPT !.params_list = Append(gs.params_list, params)]
    /\ UNCHANGED <<execVars, pureVars>>

RandomFinish ==
    /\ gs.phase = "loop" /\ gs.method = "random"
    /\ gs.k > gs.n_iter
    /\ \E e \in {"TypeError", "ValueError"} : gs' = Finish(gs, FALSE, e)
    /\ UNCHANGED <<execVars, pureVars>>

OptNext ==
    \/ GridSearchCall
    \/ GridTrial
    \/ GridFinish
    \/ RandomSearchCall
    \/ RandomTrial
    \/ RandomFinish

SpecOptimizer == OptInit /\ [][OptNext]_vars

-----------------------------------------------------------------------------
(* Claims about the search engine, checked under SpecOptimizer *)

GridFinished == gs.method = "grid" /\ gs.phase \in {"returned", "raised"}

\* the Cartesian product of the candidate lists, as a set of assignments
Combinations(param_grid) ==
    {a \in [{it[1] : it \in Range(param_grid)} -> PeriodValues] :
        \A it \in Range(param_grid) : a[it[1]] \in Range(it[2])}

RECURSIVE ProductOfSizes(_, _)
ProductOfSizes(param_grid, j) ==
    IF j = 0 THEN 1 ELSE Len(param_grid[j][2]) * ProductOfSizes(param_grid, j - 1)

NoTrialFailed == \A k \in 1..Len(gs.trials) : gs.trials[k].caught = "none"

\* C7: a finished grid_search has run exactly one trial for each element of
\* the Cartesian product of the candidate lists (lists of distinct values):
\* every combination is the parameters of exactly one trial and there are no
\* other trials; when no trial failed, the result set has as many rows as the
\* product of the list sizes.
C7_OneTrialPerCombination ==
    GridFinished =>
        /\ \A a \in Combinations(gs.param_grid) :
              Cardinality({k \in 1..Len(gs.trials) : gs.trials[k].params = a}) = 1
        /\ \A k \in 1..Len(gs.trials) :
              gs.trials[k].params \in Combinations(gs.param_grid)
        /\ Len(gs.trials) = ProductOfSizes(gs.param_grid, Len(gs.param_grid))
        /\ NoTrialFailed =>
              Len(gs.results_df) = ProductOfSizes(gs.param_grid, Len(gs.param_grid))

\* a 2x2 grid whose four trials all succeeded
C7_Witness ==
    /\ gs.method = "grid" /\ gs.phase = "returned"
    /\ Len(gs.param_grid) = 2
    /\ Len(gs.param_grid[1][2]) = 2 /\ Len(gs.param_grid[2][2]) = 2
    /\ NoTrialFailed
    /\ Len(gs.results_df) = 4

\* x is a better value of the objective than y
Better(metric, x, y) ==
    IF metric = "max_drawdown" THEN RLess(x, y) ELSE RLess(y, x)

\* row b of the rows is the first one holding the extreme value of the objective
FirstExtreme(rows, metric, b) ==
    /\ ~IsNaN(rows[b][metric])
    /\ \A j \in 1..Len(rows) : ~Better(metric, rows[j][metric], rows[b][metric])
    /\ \A j \in 1..(b - 1) : rows[j][metric] # rows[b][metric]

\* C8: the best result a search returns (grid_search or random_search) is the
\* row of a successful trial whose objective value is the smallest of all rows
\* for max_drawdown and the largest for every other metric, and no earlier
\* row has the same value.
C8_BestIsFirstExtreme ==
    gs.phase = "returned" =>
        \E b \in 1..Len(gs.results_df) :
            /\ gs.best_result = gs.results_df[b]
            /\ FirstExtreme(gs.results_df, gs.metric, b)

\* the best row is not the first row: an earlier row has a strictly smaller
\* total_return, and a later row of other parameters ties with the best
C8_Witness ==
    /\ gs.phase = "returned" /\ gs.metric = "total_return"
    /\ \E b \in 2..Len(gs.results_df) :
          /\ gs.best_result = gs.results_df[b]
          /\ \E q \in 1..(b - 1) :
                RLess(gs.results_df[q].total_return, gs.results_df[b].total_return)
          /\ \E j \in (b + 1)..Len(gs.results_df) :
                /\ gs.results_df[j].total_return = gs.results_df[b].total_return
                /\ gs.results_df[j].params # gs.results_df[b].params

RECURSIVE CompletedRows(_, _, _, _)
\* the rows of the first n combinations whose construction, simulation and
\* scoring raise nothing, in the order of the combinations
CompletedRows(params_list, base_config, close, n) ==
    IF n = 0 THEN <<>>
    ELSE LET prev == CompletedRows(params_list, base_config, close, n - 1)
             cfg == MergeConfig(base_config, params_list[n])
         IN  IF TrialError(cfg) = "none"
             THEN Append(prev, Row(TrialMetrics(cfg, close), params_list[n]))
             ELSE prev

\* C9: a trial of grid_search whose construction, simulation or scoring raises
\* does not end the search: a finished grid_search has run the trial of every
\* combination of the enumeration, in its order, and the result set it returns
\* holds exactly the rows of the trials whose construction, simulation and
\* scoring raised nothing, in enumeration order.
C9_FailureSkipsOnlyTheTrial ==
    /\ GridFinished =>
          /\ Len(gs.trials) = Len(gs.params_list)
          /\ \A k \in 1..Len(gs.trials) : gs.trials[k].params = gs.params_list[k]
    /\ (gs.method = "grid" /\ gs.phase = "returned") =>
          gs.results_df = CompletedRows(gs.params_list, gs.base_config, gs.data,
                                        Len(gs.params_list))

\* a trial raised in generate_signals, the next one completed, and the search
\* returned
C9_Witness ==
    /\ gs.method = "grid" /\ gs.phase = "returned"
    /\ \E k \in 1..(Len(gs.trials) - 1) :
          /\ gs.trials[k].caught = "ValueError" /\ ~gs.trials[k].appended
          /\ gs.trials[k + 1].appended
    /\ Len(gs.results_df) < Len(gs.trials)

\* C10 as stated: a finished grid_search has raised only if no trial
\* contributed a row; with at least one completed trial it has returned a best
\* result and the result set.
C10_Original ==
    GridFinished =>
        /\ gs.phase = "raised" => \A k \in 1..Len(gs.trials) : ~gs.trials[k].appended
        /\ (\E k \in 1..Len(gs.trials) : gs.trials[k].appended) =>
              /\ gs.phase = "returned"
              /\ gs.best_result # None
              /\ Len(gs.results_df) > 0

RandomFinished == gs.method = "random" /\ gs.phase \in {"returned", "raised"}

\* C11 as stated: a finished random_search none of whose trials contributed a
\* row has not raised; it has returned a result set with zero rows.
C11_Original ==
    (RandomFinished /\ \A k \in 1..Len(gs.trials) : ~gs.trials[k].appended) =>
        /\ gs.phase = "returned"
        /\ Len(gs.results_df) = 0

-----------------------------------------------------------------------------
(* random_search called twice in one process: numpy's global generator *)

\* the raw outputs of the generator that the model tells apart
RawValues == {0, 1}

\* the price series of the repeated search
SeedData == {<<1, 2, 1, 2>>, <<2, 2, 1, 1>>}

Seeds == {7, 42}

\* the generator's state: the seed it was last seeded with and the number of
\* draws made since; <<0, 0>> is the state of a process that never seeded
Unseeded == <<0, 0>>

\* the generator is left as it is
KeepGenerator(rng, random_state) == rng

\* np.random.seed(random_state)
SeedGenerator(rng, random_state) == <<random_state, 0>>

\* the upper end of the draw lies one past high
RandIntBeyond(raw, low, high) == low + (raw % (high + 2 - low))

\* np.random.randint(low, high + 1) for the raw output of the generator
RandInt(raw, low, high) == low + (raw % (high + 1 - low))

\* the states the generator passes through during n draws from rng
Positions(rng, n) == [j \in 1..n |-> <<rng[1], rng[2] + j - 1>>]

\* params after the loop over param_distributions.items(): draw j is made
\* for the j-th declared parameter
DrawParams(param_distributions, raws) ==
    [name \in {d[1] : d \in Range(param_distributions)} |->
        LET j == CHOOSE x \in 1..Len(param_distributions) :
                    param_distributions[x][1] = name
        IN  RandInt(raws[j], param_distributions[j][2], param_distributions[j][3])]

Reverse(seq) == [j \in 1..Len(seq) |-> seq[Len(seq) + 1 - j]]

\* two optimizers over the same data and base_config in a fresh process;
\* stream holds the outputs of the generator seen so far, by generator state
SeedInit ==
    /\ \E d \in SeedData, e \in {"TypeError", "ValueError"} :
          gs = [phase |-> "pair", turn |-> 1, rng |-> Unseeded, stream |-> <<>>,
                random_state |-> 0, pandas_error |-> e,
                runs |-> <<OptIdle(d, FullBaseConfig), OptIdle(d, FullBaseConfig)>>]
    /\ execIdle
    /\ pureIdle

SeedRunning == gs.phase = "pair" /\ gs.turn \in {1, 2}

\* random_search(...) up to the loop; the second call repeats the first
\* call's n_iter, metric and random_state, with the distributions declared in
\* the same or in the opposite order
SeededSearchCall ==
    /\ SeedRunning
    /\ gs.runs[gs.turn].phase = "idle"
    /\ \E param_distributions \in ParamDistributions, n_iter \in 1..MaxIter,
          metric \in Objectives, random_state \in Seeds, reversed \in BOOLEAN :
          /\ gs.turn = 1 => ~reversed
          /\ gs.turn = 2 =>
                /\ param_distributions = gs.runs[1].param_distributions
                /\ n_iter = gs.runs[1].n_iter
                /\ metric = gs.runs[1].metric
                /\ random_state = gs.random_state
          /\ gs' = [gs EXCEPT
                      !.rng = SeedGenerator(gs.rng, random_state),
                      !.random_state = random_state,
                      !.runs[gs.turn] =
                          [Started(gs.runs[gs.turn], "random", metric, FALSE, <<>>)
                              EXCEPT !.param_distributions =
                                         IF reversed THEN Reverse(param_distributions)
                                         ELSE param_distributions,
                                     !.n_iter = n_iter]]
    /\ UNCHANGED <<execVars, pureVars>>

\* one iteration of random_search: the draws, the merge and the try block
SeededTrial ==
    /\ SeedRunning
    /\ LET run == gs.runs[gs.turn]
           n == Len(run.param_distributions)
           at == Positions(gs.rng, n)
       IN  /\ run.phase = "loop"
           /\ run.k <= run.n_iter
           /\ \E raws \in [1..n -> RawValues] :
                 /\ \A j \in 1..n :
                       at[j] \in DOMAIN gs.stream => raws[j] = gs.stream[at[j]]
                 /\ LET params == DrawParams(run.param_distributions, raws)
                    IN  gs' = [gs EXCEPT
                                 !.rng = <<gs.rng[1], gs.rng[2] + n>>,
                                 !.stream = [p \in DOMAIN gs.stream \cup Range(at) |->
                                                IF p \in DOMAIN gs.stream
                                                THEN gs.stream[p]
                                                ELSE raws[CHOOSE j \in 1..n : at[j] = p]],
                                 !.runs[gs.turn] =
                                     [Trial(run, params, FALSE)
                                         EXCEPT !.params_list =
                                                    Append(run.params_list, params)]]
    /\ UNCHANGED <<execVars, pureVars>>

SeededFinish ==
    /\ SeedRunning
    /\ LET run == gs.runs[gs.turn]
       IN  /\ run.phase = "loop"
           /\ run.k > run.n_iter
           /\ gs' = [gs EXCEPT !.turn = gs.turn + 1,
                               !.runs[gs.turn] = Finish(run, FALSE, gs.pandas_error)]
    /\ UNCHANGED <<execVars, pureVars>>

SeedNext ==
    \/ SeededSearchCall
    \/ SeededTrial
    \/ SeededFinish

SpecSeed == SeedInit /\ [][SeedNext]_vars

BothFinished == gs.phase = "pair" /\ gs.turn = 3

\* C12: two random_search calls with the same seed, the same distributions
\* (declared in the same order) and the same n_iter draw the same sequence of
\* parameter dicts, and end alike: the same result set and best result, or
\* the same error.
C12_SameSeedSameSearch ==
    (BothFinished /\ gs.runs[1].param_distributions = gs.runs[2].param_distributions) =>
        /\ gs.runs[1].params_list = gs.runs[2].params_list
        /\ gs.runs[1].results_df = gs.runs[2].results_df
        /\ gs.runs[1].best_result = gs.runs[2].best_result
        /\ gs.runs[1].phase = gs.runs[2].phase
        /\ gs.runs[1].error = gs.runs[2].error

\* both calls returned after two trials with different draws
C12_Witness ==
    /\ BothFinished
    /\ gs.runs[1].param_distributions = gs.runs[2].param_distributions
    /\ gs.runs[1].phase = "returned" /\ gs.runs[2].phase = "returned"
    /\ Len(gs.runs[2].params_list) = 2
    /\ gs.runs[2].params_list[1] # gs.runs[2].params_list[2]
    /\ Len(gs.runs[2].results_df) = 2

-----------------------------------------------------------------------------
(* run_backtest on inputs nothing has validated: an empty series, prices that
   are not positive, a strategy whose signal series is shorter than the data *)

RawPrices == -1..MaxPrice

\* values.ffill(): each NaN replaced by the last number before it
Pad(values) ==
    [k \in 1..Len(values) |->
        LET known == {j \in 1..k : ~IsNaN(values[j])}
        IN  IF known = {} THEN NaN
            ELSE values[CHOOSE j \in known : \A x \in known : x <= j]]

\* pct_change() of a pandas whose default fill_method is 'pad'
DataFramePadded(values) ==
    [portfolio_value |-> values, returns |-> PctChange(Pad(values))]

RawInit ==
    /\ ExecInit
    /\ pureIdle
    /\ gs = [phase |-> "raw", len_signals |-> 0, error |-> "none"]

\* run_backtest(data) with len(data) = n and a strategy that returns m signals
RawRunBacktest ==
    /\ pc = "idle"
    /\ portfolio = None
    /\ gs.error = "none"
    /\ \E n \in 0..MaxBars, m \in 0..MaxBars :
          /\ len_data' = n
          /\ gs' = [gs EXCEPT !.len_signals = m]
    /\ data' = <<>>
    /\ signals' = <<>>
    /\ cash' = initial_cash
    /\ position' = Zero
    /\ portfolio_values' = <<>>
    /\ i' = FirstBar
    /\ pc' = "loop"
    /\ metrics' = None
    /\ UNCHANGED <<config, current_price, signal, portfolio, pureVars>>

\* an iteration whose signals.iloc[i] exists
RawLoopStep ==
    /\ pc = "loop"
    /\ i < len_data
    /\ i < gs.len_signals
    /\ \E price \in RawPrices : \E sig \in Signals : Iterate(price, sig)
    /\ UNCHANGED <<config, len_data, pc, portfolio, metrics, pureVars, gs>>

\* an iteration whose signals.iloc[i] is out of bounds: IndexError leaves
\* run_backtest after current_price was read
RawIndexError ==
    /\ pc = "loop"
    /\ i < len_data
    /\ i >= gs.len_signals
    /\ \E price \in RawPrices :
          /\ current_price' = FromInt(price)
          /\ data' = Append(data, price)
    /\ pc' = "idle"
    /\ gs' = [gs EXCEPT !.error = "IndexError"]
    /\ UNCHANGED <<config, len_data, signals, i, cash, position, portfolio_values,
                   signal, portfolio, metrics, pureVars>>

\* the loop is exhausted: the frame is built with the installed pandas'
\* pct_change, which pads NaN values first or does not
RawLoopEnd ==
    /\ pc = "loop"
    /\ i >= len_data
    /\ portfolio' \in {DataFrame(portfolio_values), DataFramePadded(portfolio_values)}
    /\ pc' = "idle"
    /\ UNCHANGED <<config, len_data, data, signals, i, cash, position, portfolio_values,
                   current_price, signal, metrics, pureVars, gs>>

RawNext ==
    \/ RawRunBacktest
    \/ RawLoopStep
    \/ RawIndexError
    \/ RawLoopEnd

SpecRaw == RawInit /\ [][RawNext]_vars

RawReturned == gs.phase = "raw" /\ pc = "idle" /\ portfolio # None

\* C13 as stated: run_backtest never returns a trajectory when the price
\* series or the signal series is empty.
C13_Original ==
    RawReturned => (len_data > 0 /\ gs.len_signals > 0)

\* C14 as stated: no trajectory row is produced from a close price <= 0, and
\* a run that read such a price has failed.
C14_Original ==
    /\ gs.phase = "raw" =>
          \A k \in 1..Len(portfolio_values) : k <= Len(data) => data[k] > 0
    /\ RawReturned => \A k \in 1..Len(data) : data[k] > 0

\* C15 as stated: with fewer signals than bars (1 <= M < N) the run does not
\* fail; it returns the trajectory of the bars 1..M-1.
C15_Original ==
    (gs.phase = "raw" /\ pc = "idle" /\ (portfolio # None \/ gs.error # "none")
        /\ 1 <= gs.len_signals /\ gs.len_signals < len_data) =>
        /\ gs.error = "none"
        /\ portfolio # None
        /\ Len(portfolio.portfolio_value) = gs.len_signals - 1

-----------------------------------------------------------------------------
(* Claims about the degenerate cases of the metrics (specification Spec) *)

\* C16 as stated: get_metrics after a run whose return sequence is empty
\* fails with an error; it returns no metrics record.
C16_Original ==
    (HasRun /\ metrics # None /\ DropNa(portfolio.returns) = <<>>) =>
        ~IsMetrics(metrics)

\* the float class of excess_returns.mean() / excess_returns.std() * sqrt(252):
\* numpy division, so x / 0.0 is an infinity of the sign of x and 0.0 / 0.0
\* is NaN
SharpeClass(sharpe) ==
    IF sharpe.std.nan \/ IsNaN(sharpe.mean) THEN "nan"
    ELSE IF sharpe.std.zero
         THEN (IF sharpe.mean = Zero THEN "nan"
               ELSE IF RLess(Zero, sharpe.mean) THEN "+inf"
               ELSE "-inf")
    ELSE "finite"

\* C17 as stated: when the standard deviation of the excess returns is zero,
\* the sharpe_ratio get_metrics reports is not an infinity.
C17_Original ==
    (HasRun /\ IsMetrics(metrics) /\ metrics.sharpe_ratio.std.zero) =>
        SharpeClass(metrics.sharpe_ratio) \notin {"+inf", "-inf"}

-----------------------------------------------------------------------------
(* Claims about the trials' configurations (specification SpecOptimizer) *)

\* cfg is base overridden by params and by nothing else
IsMerge(cfg, base, params) ==
    /\ DOMAIN cfg = DOMAIN base \cup DOMAIN params
    /\ \A key \in DOMAIN params : cfg[key] = params[key]
    /\ \A key \in DOMAIN base \ DOMAIN params : cfg[key] = base[key]

\* C18: in every step of grid_search and random_search base_config keeps its
\* keys and values, and the config of every trial run so far is base_config
\* overridden by that trial's own combination only (the combination wins on
\* a key collision, nothing of another trial's combination is in it).
C18_ConfigIsOwnMerge ==
    [][/\ gs'.base_config = gs.base_config
       /\ \A k \in 1..Len(gs'.trials) :
             IsMerge(gs'.trials[k].config, gs.base_config, gs'.trials[k].params)]_vars

\* the second trial's fast_period collides with base_config's entry and
\* differs from it and from the first trial's
C18_Witness ==
    /\ gs.phase \in {"returned", "raised"}
    /\ Len(gs.trials) >= 2
    /\ "fast_period" \in DOMAIN gs.base_config
    /\ "fast_period" \in DOMAIN gs.trials[2].params
    /\ gs.trials[2].params.fast_period # gs.base_config.fast_period
    /\ gs.trials[2].params.fast_period # gs.trials[1].params.fast_period
    /\ gs.trials[2].config.fast_period = gs.trials[2].params.fast_period

\* the row of trial k in the results: rows are appended in trial order
RowOf(trials, k) == Cardinality({j \in 1..k : trials[j].appended})

\* the metrics of one run of MAStrategy and a new BacktestExecutor built with
\* cfg alone, over the series close
AloneMetrics(cfg, close) ==
    Metrics(simple_backtest(close,
                            generate_signals(close,
                                             Get(cfg, "fast_period", DefaultFastPeriod),
                                             Get(cfg, "slow_period", DefaultSlowPeriod)),
                            cfg))

\* C19: when grid_search or random_search has finished, the metrics recorded
\* for each trial are the metrics of its configuration run alone with a new
\* strategy and a new executor, whatever other trials the search held, in
\* whatever order, and whether or not earlier trials failed.
C19_TrialsIndependent ==
    gs.phase \in {"returned", "raised"} =>
        \A k \in 1..Len(gs.trials) :
            gs.trials[k].appended =>
                gs.results[RowOf(gs.trials, k)] =
                    Row(AloneMetrics(gs.trials[k].config, gs.data), gs.trials[k].params)

\* the third trial follows a failed trial and a completed trial of other
\* parameters whose metrics differ from its own
C19_Witness ==
    /\ gs.phase = "returned"
    /\ Len(gs.trials) >= 3
    /\ gs.trials[1].appended /\ ~gs.trials[2].appended /\ gs.trials[3].appended
    /\ gs.results[1].total_return # gs.results[2].total_return
    /\ gs.results[2] = Row(AloneMetrics(gs.trials[3].config, gs.data), gs.trials[3].params)

-----------------------------------------------------------------------------
(* Claims about the enumeration order of grid_search (SpecOptimizer) *)

\* the position of the value v in the list declared for name
ValueIndex(param_grid, name, v) ==
    LET it == CHOOSE x \in Range(param_grid) : x[1] = name
    IN  CHOOSE j \in 1..Len(it[2]) : it[2][j] = v

\* the position at which name is declared in the grid
DeclaredRank(param_grid, name) ==
    CHOOSE j \in 1..Len(param_grid) : param_grid[j][1] = name

\* p comes before q when the parameters are compared in the order of rank,
\* each by the position of its value in its declared list
Before(param_grid, rank, p, q) ==
    \E name \in DOMAIN p :
        /\ ValueIndex(param_grid, name, p[name]) < ValueIndex(param_grid, name, q[name])
        /\ \A other \in DOMAIN p : rank[other] < rank[name] => p[other] = q[other]

\* the trials, and the rows of the result set, follow the order given by rank
InOrder(rank) ==
    /\ \A k \in 1..Len(gs.params_list) : \A l \in (k + 1)..Len(gs.params_list) :
          Before(gs.param_grid, rank, gs.params_list[k], gs.params_list[l])
    /\ \A k \in 1..Len(gs.trials) : gs.trials[k].params = gs.params_list[k]
    /\ \A k \in 1..Len(gs.results) : \A l \in (k + 1)..Len(gs.results) :
          Before(gs.param_grid, rank, gs.results[k].params, gs.results[l].params)

\* C20 as stated: the combinations are visited with the parameters in the
\* order in which the grid declares them, the first declared parameter
\* varying slowest, each parameter's values in declared order.
C20_Original ==
    gs.method = "grid" =>
        InOrder([name \in {it[1] : it \in Range(gs.param_grid)} |->
                    DeclaredRank(gs.param_grid, name)])

\* C20: grid_search visits the combinations in a deterministic order: the
\* parameters are taken in alphabetical order of their names, whatever the
\* order of declaration, the first name varying slowest, and each parameter's
\* values in their declared order; the rows of the result set follow that
\* order.
C20_OrderByName ==
    gs.method = "grid" => InOrder(NameRank)

\* a 2x2 grid declared with slow_period first, all four rows in the result
\* set: the second combination changes slow_period and keeps fast_period
C20_Witness ==
    /\ gs.method = "grid" /\ gs.phase = "returned"
    /\ Len(gs.param_grid) = 2 /\ gs.param_grid[1][1] = "slow_period"
    /\ Len(gs.results_df) = 4
    /\ gs.results_df[1].params.fast_period = gs.results_df[2].params.fast_period
    /\ gs.results_df[1].params.slow_period # gs.results_df[2].params.slow_period

-----------------------------------------------------------------------------
(* Claims about the draws of random_search (specification SpecSeed) *)

\* params holds one value for every declared parameter, within its range
WithinRanges(param_distributions, params) ==
    /\ DOMAIN params = {d[1] : d \in Range(param_distributions)}
    /\ \A d \in Range(param_distributions) :
          d[2] <= params[d[1]] /\ params[d[1]] <= d[3]

\* the run the generator served last: the one in progress, else the one
\* that has just finished
LastServed == IF gs.turn = 1 \/ gs.runs[2].phase # "idle" THEN
                  (IF gs.turn = 3 THEN 2 ELSE gs.turn)
              ELSE 1

\* C21: random_search draws once per iteration, failed or not: after j
\* iterations it holds j drawn parameter dicts, j trials and at most j rows,
\* the generator has served j draws per declared parameter since it was
\* seeded, and a finished search has made exactly n_iter iterations; every
\* drawn value lies within its parameter's (low, high), bounds included.
C21_DrawsWithinRanges ==
    \A r \in {1, 2} :
        LET run == gs.runs[r]
        IN  run.phase # "idle" =>
              /\ Len(run.params_list) = run.k - 1
              /\ Len(run.trials) = run.k - 1
              /\ \A j \in 1..Len(run.trials) : run.trials[j].params = run.params_list[j]
              /\ run.k - 1 <= run.n_iter
              /\ run.phase \in {"returned", "raised"} => run.k - 1 = run.n_iter
              /\ Len(run.results) <= Len(run.trials)
              /\ Len(run.results_df) <= run.n_iter
              /\ \A j \in 1..Len(run.params_list) :
                    WithinRanges(run.param_distributions, run.params_list[j])
              /\ r = LastServed =>
                    gs.rng = <<gs.random_state,
                               (run.k - 1) * Len(run.param_distributions)>>

\* a finished search over fast_period in (-1, 1): its first trial drew the
\* lower bound and failed, its second trial drew another value and completed
C21_Witness ==
    /\ gs.turn >= 2
    /\ gs.runs[1].phase = "returned"
    /\ gs.runs[1].n_iter = 2
    /\ \E d \in Range(gs.runs[1].param_distributions) :
          /\ d[1] = "fast_period" /\ d[2] < d[3]
          /\ gs.runs[1].params_list[1].fast_period = d[2]
          /\ gs.runs[1].params_list[2].fast_period > d[2]
    /\ ~gs.runs[1].trials[1].appended
    /\ gs.runs[1].trials[2].appended
    /\ Len(gs.runs[1].results_df) = 1

-----------------------------------------------------------------------------
(* Claims about the value of the portfolio at an entry (specification Spec) *)

\* the commission the step charges on an entry from cash c: none on a Long
\* entry, abs(position) * price * commission_rate on a Short entry
EntryCommission(c, sig) ==
    IF sig = -1 THEN RMul(RAbs(RMul(c, position_ratio)), commission_rate) ELSE Zero

\* C22 as stated: at a step that opens a long or a short position from flat the
\* portfolio value is the cash held before the step minus the commission of the
\* entry, and an entry at the first bar closed at the second bar at the same
\* price leaves cash at initial_cash minus that commission
C22_Original ==
    [][IsIteration =>
          /\ (position = Zero /\ signal' # 0) =>
                Last(portfolio_values') = RSub(cash, EntryCommission(cash, signal'))
          /\ (signals' = <<signals'[1], 0>> /\ signals'[1] # 0 /\ data'[1] = data'[2]) =>
                cash' = RSub(initial_cash, EntryCommission(initial_cash, signals'[1]))]_vars


\* C23 as stated: in a verbose grid_search a trial is reported as failed exactly
\* when it contributes no row to the result set
C23_Original ==
    (gs.method = "grid" /\ gs.verbose) =>
        \A j \in 1..Len(gs.trials) :
            gs.trials[j].report = "failed" <=> ~gs.trials[j].appended

-----------------------------------------------------------------------------
(* One BacktestExecutor called repeatedly (specification SpecReuse) *)

\* the number of bars of the data of a call
ReuseLens == {1, 3}

\* the locals of _simple_backtest are those of the call before
StartOfRunResumed(c, p) ==
    [cash |-> IF portfolio = None THEN initial_cash ELSE c, position |-> p]

\* cash = initial_cash; position = 0 at the top of _simple_backtest
StartOfRun(c, p) == [cash |-> initial_cash, position |-> Zero]

\* gs records the calls made on the executor: the last call (op), the number
\* of run_backtest calls (runs) and of those that returned (completed), the
\* inputs of the last one that returned (last), the locals left by the call
\* before (before) and the error of the last call
ReuseInit ==
    /\ ExecInit
    /\ pureIdle
    /\ gs = [phase |-> "reuse", op |-> "none", runs |-> 0, completed |-> 0,
             len_signals |-> 0, last |-> [data |-> <<>>, signals |-> <<>>],
             before |-> [cash |-> Zero, position |-> Zero], error |-> "none"]

\* run_backtest(data) on the same executor, whatever the calls before left;
\* the strategy returns a signal for every bar or for bar 0 only
ReuseRunBacktest ==
    /\ pc = "idle"
    /\ gs.runs < MaxRuns
    /\ \E n \in ReuseLens : \E m \in {1, n} :
          /\ len_data' = n
          /\ gs' = [gs EXCEPT !.op = "run_backtest", !.runs = gs.runs + 1,
                              !.len_signals = m, !.error = "none",
                              !.before = [cash |-> cash, position |-> position]]
    /\ data' = <<>>
    /\ signals' = <<>>
    /\ cash' = StartOfRun(cash, position).cash
    /\ position' = StartOfRun(cash, position).position
    /\ portfolio_values' = <<>>
    /\ i' = FirstBar
    /\ pc' = "loop"
    /\ metrics' = None
    /\ UNCHANGED <<config, current_price, signal, portfolio, pureVars>>

ReuseLoopStep ==
    /\ pc = "loop"
    /\ i < len_data
    /\ i < gs.len_signals
    /\ \E price \in Prices : \E sig \in Signals : Iterate(price, sig)
    /\ UNCHANGED <<config, len_data, pc, portfolio, metrics, pureVars, gs>>

\* signals.iloc[i] is out of bounds: IndexError leaves run_backtest before
\* self.portfolio is assigned
ReuseIndexError ==
    /\ pc = "loop"
    /\ i < len_data
    /\ i >= gs.len_signals
    /\ \E price \in Prices :
          /\ current_price' = FromInt(price)
          /\ data' = Append(data, price)
    /\ pc' = "idle"
    /\ gs' = [gs EXCEPT !.error = "IndexError"]
    /\ UNCHANGED <<config, len_data, signals, i, cash, position, portfolio_values,
                   signal, portfolio, metrics, pureVars>>

\* the loop is exhausted: self.portfolio is assigned and returned
ReuseLoopEnd ==
    /\ pc = "loop"
    /\ i >= len_data
    /\ portfolio' = DataFrame(portfolio_values)
    /\ pc' = "idle"
    /\ gs' = [gs EXCEPT !.completed = gs.completed + 1,
                        !.last = [data |-> data, signals |-> signals]]
    /\ UNCHANGED <<config, len_data, data, signals, i, cash, position, portfolio_values,
                   current_price, signal, metrics, pureVars>>

\* get_metrics(), at any time between two calls of run_backtest
ReuseGetMetrics ==
    /\ pc = "idle"
    /\ metrics' = IF portfolio = None THEN Raised("ValueError") ELSE Metrics(portfolio)
    /\ gs' = [gs EXCEPT !.op = "get_metrics",
                        !.error = IF portfolio = None THEN "ValueError" ELSE "none"]
    /\ UNCHANGED <<config, len_data, data, signals, pc, i, cash, position, portfolio_values,
                   current_price, signal, portfolio, pureVars>>

ReuseNext ==
    \/ ReuseRunBacktest
    \/ ReuseLoopStep
    \/ ReuseIndexError
    \/ ReuseLoopEnd
    \/ ReuseGetMetrics

SpecReuse == ReuseInit /\ [][ReuseNext]_vars

\* the trajectory of a run over the given bars, computed from nothing but the
\* bars, the signals and the config
FreshRun(d, s) == simple_backtest(<<1>> \o d, <<0>> \o s, config)

\* C24: on one executor, get_metrics raises ValueError while no run_backtest
\* has returned; every run_backtest starts from cash = initial_cash and
\* position = 0 whatever the calls before left, and the trajectory it returns
\* is the one a fresh executor computes for the same bars; get_metrics reports
\* the metrics of the last run_backtest that returned, also after a later run
\* that failed.
C24_RunsIndependent ==
    [][/\ (pc = "idle" /\ pc' = "loop") =>
              /\ cash' = initial_cash
              /\ position' = Zero
              /\ portfolio_values' = <<>>
       /\ (pc = "loop" /\ pc' = "idle" /\ gs'.error = "none") =>
              portfolio' = FreshRun(data, signals)
       /\ (pc = "loop" /\ pc' = "idle" /\ gs'.error # "none") =>
              portfolio' = portfolio
       /\ (pc = "idle" /\ pc' = "idle") =>
              /\ gs.completed = 0 => metrics' = Raised("ValueError")
              /\ gs.completed > 0 =>
                    metrics' = Metrics(FreshRun(gs.last.data, gs.last.signals))]_vars

\* get_metrics has reported on the second completed run, which started after
\* a run that ended with an open position and with cash other than initial_cash
C24_Witness ==
    /\ gs.phase = "reuse"
    /\ gs.completed = 2
    /\ gs.op = "get_metrics"
    /\ gs.before.position # Zero
    /\ gs.before.cash # initial_cash
    /\ IsMetrics(metrics)
    /\ Len(portfolio.portfolio_value) = 2
    /\ position = Zero

=============================================================================
